---- MODULE Spec2Model ----
(***************************************************************************)
(* Model of mental_health_app.py: the Streamlit session state machine      *)
(* (login / signup / logout / page navigation), the users table with its   *)
(* UNIQUE username column, and the PHQ-9 / GAD-7 screening page with the   *)
(* screening_results table.                                                *)
(*                                                                         *)
(* One browser tab is one Streamlit session with its own st.session_state; *)
(* all sessions share one SQLite database file.  One action is one script  *)
(* run triggered by a widget, including the st.rerun() it ends with.  Only *)
(* signup is split into steps, at the points where SQLite lets another     *)
(* connection interleave.                                                  *)
(***************************************************************************)
EXTENDS Integers, Sequences, FiniteSets, TLC

VARIABLES
    users,          \* table users: sequence of rows [id, username, password]
    results,        \* table screening_results: sequence of rows
    lock,           \* holder of the SQLite write lock, or NoSession
    pc,             \* per session: position inside signup()
    pending,        \* per session: <<username, password>> of the signup in flight
    session_state,  \* per session: st.session_state, a map from key to value
    screen,         \* per session: what the last script run rendered
    input           \* the screening form drawn by the pure-function specification

vars == <<users, results, lock, pc, pending, session_state, screen, input>>

----------------------------------------------------------------------------
(* Bounds and input sets *)

MaxUsers == 2
MaxResults == 1

Sessions == {"tab1", "tab2"}
NoSession == "none"

MOD_PASSWORD == "modpass123"

Usernames == {"alice", "moderator"}
Passwords == {"pw", MOD_PASSWORD}

----------------------------------------------------------------------------
(* Screening thresholds: Python range(lo, hi) is kept as <<lo, hi>> *)

InRange(x, r) == r[1] <= x /\ x < r[2]

\* The Moderate band ending one score early
PHQ9_THRESHOLDS_gap ==
    [none_mild |-> <<0, 10>>,
     moderate |-> <<10, 14>>,
     moderately_severe |-> <<15, 20>>,
     severe |-> <<20, 100>>]

PHQ9_THRESHOLDS ==
    [none_mild |-> <<0, 10>>,
     moderate |-> <<10, 15>>,
     moderately_severe |-> <<15, 20>>,
     severe |-> <<20, 100>>]

GAD7_THRESHOLDS ==
    [none_mild |-> <<0, 10>>,
     moderate |-> <<10, 15>>,
     severe |-> <<15, 22>>]

----------------------------------------------------------------------------
(* Database helpers *)

\* hashlib.sha256(password).hexdigest(): a digest that is not the password;
\* distinct passwords of the model have distinct digests.
hash_password(password) == <<"sha256", password>>

\* A users table created without UNIQUE on username
IntegrityError_off(tbl, username) == FALSE

\* UNIQUE on users.username: the INSERT raises sqlite3.IntegrityError.
IntegrityError(tbl, username) ==
    \E i \in 1..Len(tbl) : tbl[i].username = username

\* Row ids counted from 0, the value kept for the moderator
InsertUser_from_zero(tbl, username, password) ==
    Append(tbl, [id |-> Len(tbl),
                 username |-> username,
                 password |-> hash_password(password)])

\* INTEGER PRIMARY KEY AUTOINCREMENT with no deletes: ids are 1, 2, 3, ...
InsertUser(tbl, username, password) ==
    Append(tbl, [id |-> Len(tbl) + 1,
                 username |-> username,
                 password |-> hash_password(password)])

\* The SELECT without its password condition
login_by_name(tbl, username, password) ==
    LET m == SelectSeq(tbl, LAMBDA r : r.username = username)
    IN  IF m = <<>> THEN <<>> ELSE <<m[1]>>

\* login(): SELECT ... WHERE username = ? AND password = ?, fetchone().
\* The absent row (None) is the empty sequence, a row is <<row>>.
login(tbl, username, password) ==
    LET m == SelectSeq(tbl, LAMBDA r : r.username = username
                                       /\ r.password = hash_password(password))
    IN  IF m = <<>> THEN <<>> ELSE <<m[1]>>

----------------------------------------------------------------------------
(* st.session_state: a map whose keys can be added and deleted *)

Has(ss, k) == k \in DOMAIN ss
Set(ss, k, v) == [x \in DOMAIN ss \cup {k} |-> IF x = k THEN v ELSE ss[x]]
Del(ss, k) == [x \in DOMAIN ss \ {k} |-> ss[x]]

\* main(): "Initialize session state variables"
InitSessionState ==
    Set(Set(Set([x \in {} |-> FALSE], "logged_in", FALSE),
            "is_moderator", FALSE), "current_page", "Home")

----------------------------------------------------------------------------
(* Page routing *)

\* The pages dict of main(), in insertion order; the value None is "None".
pages ==
    << <<"Home", "None">>,
       <<"My Journal", "journal_page">>,
       <<"Mood Tracker", "mood_tracker_page">>,
       <<"Self-Screening", "screening_page">>,
       <<"Connect", "connect_page">>,
       <<"AI Companion", "chatbot_page">>,
       <<"Resources", "resources_page">> >>

\* list(pages.keys())[1:]
features == {pages[i][1] : i \in 2..Len(pages)}

\* pages[current_page] in place of pages.get(current_page)
pages_get_strict(k) ==
    IF \E i \in 1..Len(pages) : pages[i][1] = k
    THEN (CHOOSE p \in {pages[i] : i \in 1..Len(pages)} : p[1] = k)[2]
    ELSE "KeyError"

\* pages.get(current_page): the value, or None for a key the dict lacks.
pages_get(k) ==
    IF \E i \in 1..Len(pages) : pages[i][1] = k
    THEN (CHOOSE p \in {pages[i] : i \in 1..Len(pages)} : p[1] = k)[2]
    ELSE "None"

NoMsg == ""
NoOut == <<>>

\* What one script run of main() renders below the forms, for session state
\* ss: the sidebar greeting, then "PAGE ROUTING".  body is the view or the
\* handler that ran; back tells whether the Back-to-Home button is shown.
Render(ss, msg, out) ==
    IF ~ss["logged_in"]
    THEN [body |-> "welcome", back |-> FALSE, msg |-> msg, out |-> NoOut]
    ELSE IF ~Has(ss, "username")
    THEN [body |-> "exception", back |-> FALSE, msg |-> msg, out |-> NoOut]
    ELSE IF ss["current_page"] = "Home"
    THEN [body |-> "home", back |-> FALSE, msg |-> msg, out |-> NoOut]
    ELSE LET page_function == pages_get(ss["current_page"])
         IN  IF page_function # "None"
             THEN [body |-> page_function, back |-> TRUE, msg |-> msg,
                   out |-> IF page_function = "screening_page" THEN out ELSE NoOut]
             ELSE [body |-> "empty", back |-> TRUE, msg |-> msg, out |-> NoOut]

----------------------------------------------------------------------------
(* screening_page(): the assessment engine *)

PHQ9 == "PHQ-9 (Depression)"
GAD7 == "GAD-7 (Anxiety)"

\* len(questions) of each branch
PHQ9_QUESTIONS == 9
GAD7_QUESTIONS == 7

options == <<"Not at all", "Several days", "More than half the days", "Nearly every day">>

\* scores = {option: i for i, option in enumerate(options)}
scores(answer) == (CHOOSE i \in 1..Len(options) : options[i] = answer) - 1

\* results.append(scores[answer]) for each question
Results(answers) == [i \in 1..Len(answers) |-> scores(answers[i])]

RECURSIVE sum(_)
sum(seq) == IF seq = <<>> THEN 0 ELSE seq[1] + sum(Tail(seq))

PHQ9Category(total_score) ==
    IF InRange(total_score, PHQ9_THRESHOLDS.none_mild) THEN "None to Mild Depression"
    ELSE IF InRange(total_score, PHQ9_THRESHOLDS.moderate) THEN "Moderate Depression"
    ELSE IF InRange(total_score, PHQ9_THRESHOLDS.moderately_severe)
         THEN "Moderately Severe Depression"
    ELSE IF InRange(total_score, PHQ9_THRESHOLDS.severe) THEN "Severe Depression"
    ELSE "Unknown"

GAD7Category(total_score) ==
    IF InRange(total_score, GAD7_THRESHOLDS.none_mild) THEN "None to Mild Anxiety"
    ELSE IF InRange(total_score, GAD7_THRESHOLDS.moderate) THEN "Moderate Anxiety"
    ELSE IF InRange(total_score, GAD7_THRESHOLDS.severe) THEN "Severe Anxiety"
    ELSE "Unknown"

\* The threshold taken as exclusive
Escalate_above(total_score) == total_score > 10

\* if total_score >= 10: st.warning(...); st.info(EMERGENCY_HELPLINE)
Escalate(total_score) == total_score >= 10

\* The row is written only for a truthy score
InsertResult_nonzero(tbl, row) ==
    IF row.score = 0 THEN tbl ELSE Append(tbl, row)

\* INSERT INTO screening_results (user_id, test_type, score, category)
InsertResult(tbl, row) == Append(tbl, row)

----------------------------------------------------------------------------
(* Actions: one per widget of main() and of screening_page() *)

Idle(s) == pc[s] = "idle"

\* The sidebar of a logged-in session renders st.session_state.username first.
LoggedIn(s) == session_state[s]["logged_in"] /\ Has(session_state[s], "username")

\* Logout that forgets to drop the moderator role
LogoutAssign_keeps_role(ss) ==
    Set(Set(ss, "logged_in", FALSE), "current_page", "Home")

\* The three assignments of the Logout branch
LogoutAssign(ss) ==
    Set(Set(Set(ss, "logged_in", FALSE), "is_moderator", FALSE), "current_page", "Home")

\* "Logout" button; del of a key the session lacks raises and ends the run
Logout(s) ==
    /\ Idle(s)
    /\ LoggedIn(s)
    /\ LET ss1 == LogoutAssign(session_state[s])
           ss2 == Del(ss1, "username")
       IN  IF Has(ss2, "user_id")
           THEN /\ session_state' = [session_state EXCEPT ![s] = Del(ss2, "user_id")]
                /\ screen' = [screen EXCEPT ![s] = Render(Del(ss2, "user_id"), NoMsg, NoOut)]
           ELSE /\ session_state' = [session_state EXCEPT ![s] = ss2]
                /\ screen' = [screen EXCEPT ![s] =
                        [body |-> "exception", back |-> FALSE, msg |-> NoMsg, out |-> NoOut]]
    /\ UNCHANGED <<users, results, lock, pc, pending, input>>

\* The moderator comparison made on the digest instead of on the plain secret
IsModerator_hashed(username, password) ==
    username = "moderator" /\ hash_password(password) = MOD_PASSWORD

\* if username == "moderator" and password == MOD_PASSWORD
IsModerator(username, password) ==
    username = "moderator" /\ password = MOD_PASSWORD

\* "Login" form button
Login(s, username, password) ==
    /\ Idle(s)
    /\ ~session_state[s]["logged_in"]
    /\ IF IsModerator(username, password)
       THEN LET ss1 == Set(Set(Set(Set(session_state[s], "logged_in", TRUE),
                                   "is_moderator", TRUE), "username", "moderator"),
                           "user_id", 0)
            IN  /\ session_state' = [session_state EXCEPT ![s] = ss1]
                /\ screen' = [screen EXCEPT ![s] = Render(ss1, NoMsg, NoOut)]
       ELSE LET user == login(users, username, password)
            IN  IF user # <<>>
                THEN LET ss1 == Set(Set(Set(session_state[s], "logged_in", TRUE),
                                        "username", user[1].username),
                                    "user_id", user[1].id)
                     IN  /\ session_state' = [session_state EXCEPT ![s] = ss1]
                         /\ screen' = [screen EXCEPT ![s] = Render(ss1, NoMsg, NoOut)]
                ELSE /\ session_state' = session_state
                     /\ screen' = [screen EXCEPT ![s] =
                             Render(session_state[s], "Invalid username or password", NoOut)]
    /\ UNCHANGED <<users, results, lock, pc, pending, input>>

\* "Sign Up" form button: signup() opens its connection.  The second
\* conjunct-pair only keeps the table within MaxUsers rows.
SignupSubmit(s, username, password) ==
    /\ Idle(s)
    /\ ~session_state[s]["logged_in"]
    /\ \/ IntegrityError(users, username)
       \/ Len(users) + Cardinality({t \in Sessions : pc[t] # "idle"}) < MaxUsers
    /\ pc' = [pc EXCEPT ![s] = "execute"]
    /\ pending' = [pending EXCEPT ![s] = <<username, password>>]
    /\ UNCHANGED <<users, results, lock, session_state, screen, input>>

\* c.execute("INSERT INTO users ..."): takes the write lock, then checks UNIQUE
SignupExecute(s) ==
    /\ pc[s] = "execute"
    /\ lock = NoSession
    /\ lock' = s
    /\ pc' = [pc EXCEPT ![s] = IF IntegrityError(users, pending[s][1])
                               THEN "integrity_error" ELSE "commit"]
    /\ UNCHANGED <<users, results, pending, session_state, screen, input>>

\* conn.commit(); return True; finally conn.close(); st.success(...)
SignupCommit(s) ==
    /\ pc[s] = "commit"
    /\ users' = InsertUser(users, pending[s][1], pending[s][2])
    /\ lock' = NoSession
    /\ pc' = [pc EXCEPT ![s] = "idle"]
    /\ pending' = [pending EXCEPT ![s] = <<>>]
    /\ screen' = [screen EXCEPT ![s] =
            Render(session_state[s], "Account created! Please log in.", NoOut)]
    /\ UNCHANGED <<results, session_state, input>>

\* except sqlite3.IntegrityError: return False; finally conn.close(); st.error(...)
SignupReject(s) ==
    /\ pc[s] = "integrity_error"
    /\ lock' = NoSession
    /\ pc' = [pc EXCEPT ![s] = "idle"]
    /\ pending' = [pending EXCEPT ![s] = <<>>]
    /\ screen' = [screen EXCEPT ![s] =
            Render(session_state[s], "Username already exists.", NoOut)]
    /\ UNCHANGED <<users, results, session_state, input>>

\* "Go to {feature}" card button of the Home view
GoTo(s, feature) ==
    /\ Idle(s)
    /\ LoggedIn(s)
    /\ session_state[s]["current_page"] = "Home"
    /\ feature \in features
    /\ LET ss1 == Set(session_state[s], "current_page", feature)
       IN  /\ session_state' = [session_state EXCEPT ![s] = ss1]
           /\ screen' = [screen EXCEPT ![s] = Render(ss1, NoMsg, NoOut)]
    /\ UNCHANGED <<users, results, lock, pc, pending, input>>

\* "Back to Home" button of every other page
BackToHome(s) ==
    /\ Idle(s)
    /\ LoggedIn(s)
    /\ session_state[s]["current_page"] # "Home"
    /\ LET ss1 == Set(session_state[s], "current_page", "Home")
       IN  /\ session_state' = [session_state EXCEPT ![s] = ss1]
           /\ screen' = [screen EXCEPT ![s] = Render(ss1, NoMsg, NoOut)]
    /\ UNCHANGED <<users, results, lock, pc, pending, input>>

\* "Calculate My PHQ-9 Score" / "Calculate My GAD-7 Score" button; the INSERT
\* waits for the write lock.  Len(results) < MaxResults only bounds the table.
Calculate(s, test, answers) ==
    /\ Idle(s)
    /\ LoggedIn(s)
    /\ session_state[s]["current_page"] # "Home"
    /\ pages_get(session_state[s]["current_page"]) = "screening_page"
    /\ Has(session_state[s], "user_id")
    /\ lock = NoSession
    /\ Len(results) < MaxResults
    /\ LET total_score == sum(Results(answers))
           category == IF test = PHQ9 THEN PHQ9Category(total_score)
                                      ELSE GAD7Category(total_score)
           row == [user_id |-> session_state[s]["user_id"],
                   test_type |-> IF test = PHQ9 THEN "PHQ-9" ELSE "GAD-7",
                   score |-> total_score,
                   category |-> category]
       IN  /\ results' = InsertResult(results, row)
           /\ screen' = [screen EXCEPT ![s] =
                   Render(session_state[s], NoMsg,
                          <<total_score, category, Escalate(total_score)>>)]
    /\ UNCHANGED <<users, lock, pc, pending, session_state, input>>

\* A script run that no button triggered (any other widget interaction)
Rerun(s) ==
    /\ Idle(s)
    /\ screen' = [screen EXCEPT ![s] = Render(session_state[s], NoMsg, NoOut)]
    /\ UNCHANGED <<users, results, lock, pc, pending, session_state, input>>

----------------------------------------------------------------------------
Init ==
    /\ users = <<>>
    /\ results = <<>>
    /\ lock = NoSession
    /\ pc = [s \in Sessions |-> "idle"]
    /\ pending = [s \in Sessions |-> <<>>]
    /\ session_state = [s \in Sessions |-> InitSessionState]
    /\ screen = [s \in Sessions |-> Render(InitSessionState, NoMsg, NoOut)]
    /\ input = <<>>

\* The screening forms the interleaving specification submits
ScreeningSamples ==
    { <<PHQ9, [i \in 1..PHQ9_QUESTIONS |-> options[1]]>>,
      <<GAD7, [i \in 1..GAD7_QUESTIONS |-> options[4]]>> }

Next ==
    \E s \in Sessions :
        \/ Logout(s)
        \/ \E u \in Usernames, p \in Passwords : Login(s, u, p)
        \/ \E u \in Usernames, p \in Passwords : SignupSubmit(s, u, p)
        \/ SignupExecute(s)
        \/ SignupCommit(s)
        \/ SignupReject(s)
        \/ \E f \in features : GoTo(s, f)
        \/ BackToHome(s)
        \/ \E f \in ScreeningSamples : Calculate(s, f[1], f[2])
        \/ Rerun(s)

Spec == Init /\ [][Next]_vars

----------------------------------------------------------------------------
(* The assessment engine as a pure function: every form of both instruments *)

OptionSet == {options[i] : i \in 1..Len(options)}

\* The forms of one instrument: one option chosen for each question
Forms(test) ==
    [1..(IF test = PHQ9 THEN PHQ9_QUESTIONS ELSE GAD7_QUESTIONS) -> OptionSet]

\* A session the program reaches: alice signed up, logged in, opened Self-Screening.
ScreeningSession ==
    Set(Set(Set(InitSessionState, "logged_in", TRUE), "username", "alice"),
        "user_id", 1)

InitScore ==
    /\ users = InsertUser(<<>>, "alice", "pw")
    /\ results = <<>>
    /\ lock = NoSession
    /\ pc = [s \in Sessions |-> "idle"]
    /\ pending = [s \in Sessions |-> <<>>]
    /\ session_state = [s \in Sessions |->
            IF s = "tab1" THEN Set(ScreeningSession, "current_page", "Self-Screening")
            ELSE InitSessionState]
    /\ screen = [s \in Sessions |-> Render(session_state[s], NoMsg, NoOut)]
    /\ \E test \in {PHQ9, GAD7} : \E answers \in Forms(test) : input = <<test, answers>>

NextScore ==
    \E s \in Sessions : screen[s].out = NoOut /\ Calculate(s, input[1], input[2])

SpecScore == InitScore /\ [][NextScore]_vars

----------------------------------------------------------------------------
(* The router as a pure function of current_page, unknown names included *)

PageInputs == {pages[i][1] : i \in 1..Len(pages)} \cup {"Settings"}

RouterSessions ==
    {InitSessionState}
        \cup {Set(ScreeningSession, "current_page", pg) : pg \in PageInputs}
        \cup {Set(Set(Set(Set(Set(InitSessionState, "logged_in", TRUE),
                              "is_moderator", TRUE), "username", "moderator"),
                      "user_id", 0), "current_page", pg) : pg \in PageInputs}

\* Nothing rendered yet: the script run is about to start.
Blank == [body |-> "", back |-> FALSE, msg |-> NoMsg, out |-> NoOut]

InitRouter ==
    /\ users = InsertUser(<<>>, "alice", "pw")
    /\ results = <<>>
    /\ lock = NoSession
    /\ pc = [s \in Sessions |-> "idle"]
    /\ pending = [s \in Sessions |-> <<>>]
    /\ session_state \in [Sessions -> RouterSessions]
    /\ screen = [s \in Sessions |-> Blank]
    /\ input = <<>>

NextRouter == \E s \in Sessions : Rerun(s)

SpecRouter == InitRouter /\ [][NextRouter]_vars

----------------------------------------------------------------------------
(* Properties *)

Anonymous(ss) ==
    /\ ~ss["logged_in"]
    /\ ~ss["is_moderator"]
    /\ ~Has(ss, "username")
    /\ ~Has(ss, "user_id")
    /\ ss["current_page"] = "Home"

\* C1: whenever the logout action is taken (from a regular or a moderator
\* session, on any page), the session it leaves is unauthenticated and not
\* privileged, holds neither username nor user_id, and is on Home.
LogoutResetsSession ==
    [][\A s \in Sessions : Logout(s) => Anonymous(session_state'[s])]_vars

\* A screening row of the moderator (user_id 0) was stored, which takes a
\* moderator session on the Self-Screening page, and no session is logged in
\* any more: the moderator logged out from a feature page.
LogoutWitness ==
    /\ \E i \in 1..Len(results) : results[i].user_id = 0
    /\ \A s \in Sessions : Anonymous(session_state[s]) /\ screen[s].body = "welcome"

Matches(row, username, password) ==
    row.username = username /\ row.password = hash_password(password)

\* C2: a login from the anonymous state with the username and password of a
\* stored user yields an authenticated, non-privileged session carrying that
\* user's username and id, on Home.
LoginReturnsStoredUser ==
    [][\A s \in Sessions, u \in Usernames, p \in Passwords :
         \A i \in 1..Len(users) :
            (Matches(users[i], u, p) /\ Login(s, u, p))
                => /\ session_state'[s]["logged_in"]
                   /\ ~session_state'[s]["is_moderator"]
                   /\ session_state'[s]["username"] = users[i].username
                   /\ session_state'[s]["user_id"] = users[i].id
                   /\ session_state'[s]["current_page"] = "Home"]_vars

Privileged(ss) ==
    /\ ss["logged_in"]
    /\ ss["is_moderator"]
    /\ Has(ss, "username") /\ ss["username"] = "moderator"
    /\ Has(ss, "user_id") /\ ss["user_id"] = 0

\* C3: a login with username "moderator" and the configured secret yields the
\* privileged session (is_moderator, username "moderator", user_id 0)
\* whatever the users table holds.
ModeratorLoginPrivileged ==
    [][\A s \in Sessions :
         Login(s, "moderator", MOD_PASSWORD) => Privileged(session_state'[s])]_vars

\* The users table holds a row named "moderator" whose id stamped a stored
\* screening row, so a session was logged in through that row; both sessions
\* are privileged now, so that session has since logged out and logged in
\* with the secret while the table held the row.
ModeratorLoginWitness ==
    /\ \E i \in 1..Len(users), j \in 1..Len(results) :
          users[i].username = "moderator" /\ results[j].user_id = users[i].id
    /\ \A s \in Sessions : Privileged(session_state[s])

UsernamesUnique ==
    \A i, j \in 1..Len(users) : users[i].username = users[j].username => i = j

\* C4: the users table never holds two rows with one username; stored rows
\* are never changed; an INSERT of a stored username raises IntegrityError and
\* the signup ends with "Username already exists."; a signup commits only a
\* username the table does not hold, so of two concurrent signups of one new
\* username exactly the one that takes the write lock first succeeds.
SignupKeepsUsernamesUnique ==
    /\ []UsernamesUnique
    /\ [][/\ Len(users') >= Len(users)
          /\ \A i \in 1..Len(users) : users'[i] = users[i]
          /\ \A s \in Sessions :
                /\ (SignupExecute(s)
                    /\ \E i \in 1..Len(users) : users[i].username = pending[s][1])
                        => pc'[s] = "integrity_error"
                /\ (pc[s] = "integrity_error" /\ pc'[s] # pc[s])
                        => /\ users' = users
                           /\ screen'[s].msg = "Username already exists."
                /\ (pc[s] = "commit" /\ pc'[s] # pc[s])
                        => /\ \A i \in 1..Len(users) : users[i].username # pending[s][1]
                           /\ Len(users') = Len(users) + 1
                           /\ screen'[s].msg = "Account created! Please log in."]_vars

\* Two signups of one new username are in flight: one holds the write lock
\* with its row inserted and not yet committed, the other waits for the lock.
ConcurrentSignupWitness ==
    \E s, t \in Sessions :
        /\ pc[s] = "commit" /\ lock = s
        /\ pc[t] = "execute"
        /\ pending[s][1] = pending[t][1]
        /\ \A i \in 1..Len(users) : users[i].username # pending[s][1]

\* The total of a form, counted option by option
Total(answers) ==
    LET n(k) == Cardinality({i \in DOMAIN answers : answers[i] = options[k]})
    IN  n(2) + 2 * n(3) + 3 * n(4)

Band(test, total) ==
    IF test = PHQ9
    THEN IF total < 10 THEN "None to Mild Depression"
         ELSE IF total < 15 THEN "Moderate Depression"
         ELSE IF total < 20 THEN "Moderately Severe Depression"
         ELSE "Severe Depression"
    ELSE IF total < 10 THEN "None to Mild Anxiety"
         ELSE IF total < 15 THEN "Moderate Anxiety"
         ELSE "Severe Anxiety"

\* C5: for every form of the instrument's length with answers worth 0..3, the
\* score shown is the sum of the answers (PHQ-9 within 0..27, GAD-7 within
\* 0..21) and the category shown is the label of the band holding the total;
\* "Unknown" is never shown.
ScoreAndCategory ==
    \A s \in Sessions :
        screen[s].out # NoOut =>
            /\ screen[s].out[1] = Total(input[2])
            /\ screen[s].out[1] \in 0..(IF input[1] = PHQ9 THEN 27 ELSE 21)
            /\ screen[s].out[2] = Band(input[1], screen[s].out[1])
            /\ screen[s].out[2] # "Unknown"

\* A PHQ-9 form totalling 14, the last score of the Moderate band, was scored.
ScoreWitness ==
    \E s \in Sessions :
        /\ input[1] = PHQ9
        /\ screen[s].out = <<14, "Moderate Depression", TRUE>>

\* C6: for both instruments the crisis-resources prompt is shown after a
\* submission if and only if the total is at least 10.
EscalationIffTen ==
    \A s \in Sessions :
        screen[s].out # NoOut => (screen[s].out[3] <=> Total(input[2]) >= 10)

\* A GAD-7 form totalling exactly 10 was scored and the prompt was shown.
EscalationWitness ==
    \E s \in Sessions :
        /\ input[1] = GAD7
        /\ Total(input[2]) = 10
        /\ screen[s].out # NoOut /\ screen[s].out[3]

FailedLoginKeepsSession ==
    [][\A s \in Sessions :
        /\ \A u \in Usernames, p \in Passwords :
            (/\ ~(u = "moderator" /\ p = MOD_PASSWORD)
             /\ \A i \in 1..Len(users) : ~Matches(users[i], u, p)
             /\ Login(s, u, p))
                => /\ session_state'[s] = session_state[s]
                   /\ screen'[s].msg = "Invalid username or password"
        /\ ((\E u \in Usernames, p \in Passwords : SignupSubmit(s, u, p))
                \/ SignupExecute(s) \/ SignupCommit(s) \/ SignupReject(s))
                => session_state'[s] = session_state[s]
        /\ SignupReject(s) => screen'[s].msg = "Username already exists."]_vars

\* A login was refused while the users table holds the username "moderator".
FailedLoginWitness ==
    \E s \in Sessions :
        /\ screen[s].msg = "Invalid username or password"
        /\ Anonymous(session_state[s])
        /\ \E i \in 1..Len(users) : users[i].username = "moderator"

Known == {"Home", "My Journal", "Mood Tracker", "Self-Screening", "Connect",
          "AI Companion", "Resources"}

Handler(page) ==
    CASE page = "My Journal" -> "journal_page"
      [] page = "Mood Tracker" -> "mood_tracker_page"
      [] page = "Self-Screening" -> "screening_page"
      [] page = "Connect" -> "connect_page"
      [] page = "AI Companion" -> "chatbot_page"
      [] page = "Resources" -> "resources_page"

Rendered(s) == screen[s].body # "" /\ session_state[s]["logged_in"]

NoModeratorRow ==
    /\ \A i \in 1..Len(users) : users[i].username # "moderator"
    /\ \A s \in Sessions :
        (session_state[s]["logged_in"] /\ session_state[s]["username"] = "moderator")
            => Privileged(session_state[s])

\* C11: in every state reached by login, logout, signup and navigation, a
\* session that is not authenticated is on Home, is not privileged and holds
\* neither username nor user_id; an authenticated session holds both (so the
\* two del statements of logout never raise), and it is privileged exactly
\* when its user_id is 0.
SessionWellFormed ==
    \A s \in Sessions :
        LET ss == session_state[s]
        IN  /\ {"logged_in", "is_moderator", "current_page"} \subseteq DOMAIN ss
            /\ ~ss["logged_in"] => Anonymous(ss)
            /\ ss["logged_in"] =>
                /\ Has(ss, "username") /\ Has(ss, "user_id")
                /\ ss["is_moderator"] <=> ss["user_id"] = 0
            /\ screen[s].body # "exception"

\* One session is the moderator's, the other a stored user's on a feature
\* page: signup, both kinds of login and navigation have acted.
SessionWellFormedWitness ==
    \E s, t \in Sessions :
        /\ Privileged(session_state[s])
        /\ session_state[t]["logged_in"]
        /\ ~session_state[t]["is_moderator"]
        /\ \E i \in 1..Len(users) :
              /\ session_state[t]["user_id"] = users[i].id
              /\ session_state[t]["username"] = users[i].username
        /\ session_state[t]["current_page"] \in features

====
